---- MODULE Spec2Model ----
(***************************************************************************)
(* Model of the per-connection LLRP client state machine of sllurp         *)
(* (src/sllurp/llrp.py): LLRPProtocol.handleMessage, the Deferred          *)
(* continuation chains it fires, the operations that send requests         *)
(* (startInventory, stopPolitely, pause, resume), the timers they arm and  *)
(* LLRPEngine.politeShutdown.  The reader is the environment: it greets,   *)
(* answers the requests in the order they were written to the socket, and  *)
(* sends keepalives, tag reports and event notifications of its own.       *)
(* Under Spec its answers may carry a failure status; under PoliteSpec it  *)
(* greets and answers with Success only.                                   *)
(***************************************************************************)
EXTENDS Integers, Sequences, FiniteSets, TLC

VARIABLES
    state,          \* LLRPProtocol.state
    disconnecting,  \* LLRPProtocol.disconnecting
    deferreds,      \* LLRPProtocol._deferreds: response name -> list of Deferred
    closed,         \* transport.close() has been called by the protocol
    conn,           \* "new" (constructed), "made" (connection_made), "lost"
    durTimers,      \* pending loop.call_later(duration, stopPolitely, True)
    resumeTimers,   \* pending loop.call_later(seconds, resume)
    rospec,         \* LLRPProtocol.rospec: <<>> (None) or the tx_power index it was built with
    added,          \* the ROSpec of the last ADD_ROSPEC written: <<>> or its tx_power index
    soonAccess,     \* pending loop.call_soon(startAccess): whether words were given
    soonStops,      \* pending loop.call_soon(proto.stopPolitely, True)
    outbox,         \* requests written to the socket, not yet answered
    out,            \* messages written to the socket by the last step
    delivered,      \* tag-report callbacks called by the last step, in call order
    raised,         \* exception that left the last step ("none" if none)
    reset_on_connect, \* LLRPProtocol.reset_on_connect
    start_inventory,  \* LLRPProtocol.start_inventory
    duration,         \* LLRPProtocol.duration is set and nonzero
    greeted,        \* the reader has sent its connection-attempt notification
    shutdown,       \* LLRPEngine.politeShutdown() was called on this connection
    calls,          \* calls the user has made so far
    teardown,       \* progress of DELETE_ACCESSSPEC(0), DELETE_ROSPEC(0), response
    disconnect_when_done, \* LLRPProtocol.disconnect_when_done
    logging,        \* whether `sent` is recorded
    sent,           \* names of the requests written so far, in order
    stream,         \* the bytes the reader sends, frame after frame
    pos,            \* how many bytes of the stream were passed to data_received
    partialData,    \* LLRPProtocol.partialData
    expectingRemainingBytes, \* LLRPProtocol.expectingRemainingBytes
    handed,         \* frames data_received has handed to handleMessage
    reconnect,      \* LLRPEngine.reconnect
    protocols,      \* LLRPEngine.protocols: the connections of the engine's set
    connecting,     \* _connect() coroutines waiting for their connection
    reconnectTimers, \* pending call_later(reconnect_delay, _connect)
    finishes,       \* onFinish(None) calls scheduled so far
    attempts,       \* _connect() coroutines started so far
    host,           \* LLRPEngine.host: the host of the last new_reader()
    coroutines,     \* _connect() coroutines returned and not yet run: the host each was asked for
    targets,        \* by attempt: the host it connects to, the host it was asked for
    wanted,         \* by pending reconnect timer: the host that was lost
    protos,         \* the protocol objects build_protocol has built, by attempt
    capdict,        \* the capabilities the reader reports
    antennas,       \* LLRPProtocol.antennas
    tx_power,       \* LLRPProtocol.tx_power
    tx_power_table, \* LLRPProtocol.tx_power_table
    modulation,     \* Modulation_Name2Type[LLRPProtocol.modulation]
    tari,           \* LLRPProtocol.tari
    reader_mode     \* LLRPProtocol.reader_mode: <<>> for None, else <<entry>>

vars == <<state, disconnecting, deferreds, closed, conn, durTimers,
          resumeTimers, soonAccess, rospec, added, soonStops, outbox, out, delivered, raised,
          reset_on_connect, start_inventory, duration, greeted,
          shutdown, calls, teardown, disconnect_when_done, logging, sent,
          stream, pos, partialData, expectingRemainingBytes, handed,
          reconnect, protocols, connecting, reconnectTimers, finishes,
          attempts, protos, host, coroutines, targets, wanted, capdict, antennas, tx_power, tx_power_table,
          modulation, tari, reader_mode>>

\* ------------------------------------------------------------------ bounds
MaxCalls == 2
MaxDeferreds == 2
MaxOutbox == 3
MaxTimers == 1
NCallbacks == 2
MaxFrames == 3      \* frames in the reader's byte stream
MaxAttempts == 3    \* connect attempts of one engine
MaxEntries == 2     \* entries of a power table or of a mode table

\* ------------------------------------------------------------------ states
STATE_DISCONNECTED == 1
STATE_CONNECTING == 2
STATE_CONNECTED == 3
STATE_SENT_ADD_ROSPEC == 4
STATE_SENT_ENABLE_ROSPEC == 5
STATE_INVENTORYING == 6
STATE_SENT_DELETE_ROSPEC == 7
STATE_SENT_DELETE_ACCESSSPEC == 8
STATE_SENT_GET_CAPABILITIES == 9
STATE_PAUSING == 10
STATE_PAUSED == 11

States == 1..11

\* ------------------------------------------------------------ message names
REN == "READER_EVENT_NOTIFICATION"
KEEPALIVE == "KEEPALIVE"
RO_ACCESS_REPORT == "RO_ACCESS_REPORT"

\* Requests the client writes, and the response name the reader answers with.
Requests == {"GET_READER_CAPABILITIES", "ADD_ROSPEC", "ENABLE_ROSPEC",
             "DISABLE_ROSPEC", "DELETE_ROSPEC", "DELETE_ACCESSSPEC",
             "ADD_ACCESSSPEC", "ENABLE_ACCESSSPEC", "DISABLE_ACCESSSPEC"}

Resp(req) == req \o "_RESPONSE"

Responses == {Resp(r) : r \in Requests}

\* Keys of _deferreds that the code registers under or looks up.
DeferredNames == Responses \cup {REN, RO_ACCESS_REPORT}

\* A received message: its name, what isSuccess() makes of it, and (for a
\* successful GET_READER_CAPABILITIES_RESPONSE) whether the capabilities it
\* carries make parseCapabilities raise LLRPError.
Msg(n, k, b) == [name |-> n, ok |-> k, bad |-> b]

\* Messages without an LLRPStatus parameter.
NoLLRPStatus == {REN, RO_ACCESS_REPORT, KEEPALIVE}

\* What a reader sends without being asked: isSuccess() is None on KEEPALIVE
\* and RO_ACCESS_REPORT, and on an event notification it depends on the event.
PoliteUnsolicited ==
    {Msg(KEEPALIVE, FALSE, FALSE), Msg(RO_ACCESS_REPORT, FALSE, FALSE)}

Unsolicited ==
    PoliteUnsolicited \cup {Msg(REN, TRUE, FALSE), Msg(REN, FALSE, FALSE)}

\* A written message: its name and the spec id it carries.
Out(n, i) == [name |-> n, id |-> i]

\* ------------------------------------------------------------- Deferred
\* An entry of Deferred._queue: slot 0 is a callback, slot 1 an errback.
Cb(f, a) == [slot |-> 0, fn |-> f, arg |-> a]
Eb(f) == [slot |-> 1, fn |-> f, arg |-> 0]
\* An errback that is added with arguments.
EbWith(f, a) == [slot |-> 1, fn |-> f, arg |-> a]

\* Deferreds the code builds.
\* handleMessage (READER_EVENT_NOTIFICATION branch): d for GET_READER_CAPABILITIES.
D_GetCapabilities == <<Cb("setState", STATE_CONNECTED), Eb("panic")>>
\* startInventory: `started`, handed to send_ENABLE_ROSPEC as onCompletion.
D_Started == <<Cb("setState", STATE_INVENTORYING), Eb("panic")>>
\* startInventory: d for ADD_ROSPEC.
D_AddROSpec == <<Cb("send_ENABLE_ROSPEC", 0), Eb("panic")>>
\* stopPolitely: d for DELETE_ACCESSSPEC.
D_StopPolitely == <<Cb("stopAllROSpecs", 0), Eb("panic")>>
\* stopAllROSpecs: d for DELETE_ROSPEC.
D_StopAllROSpecs == <<Eb("panic")>>
\* pause: d for DISABLE_ROSPEC.
D_Pause == <<Cb("setState", STATE_PAUSED), Eb("complain")>>
\* resume: d for ENABLE_ROSPEC.
D_Resume == <<Cb("setState", STATE_INVENTORYING), Eb("panic")>>
\* nextAccess: d for DISABLE_ACCESSSPEC; callback and errback are both
\* send_DELETE_ACCESSSPEC.  `words` is 1 if a read or write operation was
\* given, 0 if neither.
D_NextAccess(words) ==
    <<Cb("send_DELETE_ACCESSSPEC", words),
      EbWith("send_DELETE_ACCESSSPEC", words)>>
\* startAccess: d for ADD_ACCESSSPEC.
D_StartAccess == <<Cb("send_ENABLE_ACCESSSPEC", 1), Eb("panic")>>

\* ------------------------------------------------- protocol operations
\* The operations below map a protocol record p to the record after the call.
\* p.exc is "none" while no exception is propagating.

\* sendLLRPMessage: transport.write of the serialized message.
sendLLRPMessage(p, m) == [p EXCEPT !.out = Append(@, m)]

\* Mutant: a connection that would become CONNECTED is marked CONNECTING.
setState_Connecting(p, newstate) ==
    [p EXCEPT !.state = IF newstate = STATE_CONNECTED THEN STATE_CONNECTING
                        ELSE newstate]

\* setState: assigns self.state (the state callbacks are the user's).
setState(p, newstate) == [p EXCEPT !.state = newstate]

\* _deferreds[name].append(d)
Register(p, name, d) == [p EXCEPT !.deferreds[name] = Append(@, d)]

send_KEEPALIVE_ACK(p) == sendLLRPMessage(p, Out("KEEPALIVE_ACK", 0))

send_GET_READER_CAPABILITIES(p, onCompletion) ==
    Register(setState(sendLLRPMessage(p, Out("GET_READER_CAPABILITIES", 0)),
                      STATE_SENT_GET_CAPABILITIES),
             "GET_READER_CAPABILITIES_RESPONSE", onCompletion)

\* send_ADD_ROSPEC(rospec, onCompletion): the message carries the ROSpec.
send_ADD_ROSPEC(p, onCompletion) ==
    Register(setState(sendLLRPMessage([p EXCEPT !.added = p.rospec],
                                      Out("ADD_ROSPEC", 1)),
                      STATE_SENT_ADD_ROSPEC),
             "ADD_ROSPEC_RESPONSE", onCompletion)

send_ENABLE_ROSPEC(p, onCompletion) ==
    Register(setState(sendLLRPMessage(p, Out("ENABLE_ROSPEC", 1)),
                      STATE_SENT_ENABLE_ROSPEC),
             "ENABLE_ROSPEC_RESPONSE", onCompletion)

\* getROSpec: the cached ROSpec unless there is none or force_new; a new one
\* is built with the tx_power of the moment.
getROSpec(p, force_new) ==
    IF p.rospec # <<>> /\ ~force_new THEN p
    ELSE [p EXCEPT !.rospec = <<p.tx_power>>]

\* startInventory: ignored while INVENTORYING; otherwise arms the duration
\* timer (if a duration is configured) and sends ADD_ROSPEC with the ROSpec
\* getROSpec() returns.
startInventory(p) ==
    IF p.state = STATE_INVENTORYING THEN p
    ELSE LET p0 == getROSpec(p, FALSE)
             p1 == IF duration
                   THEN [p0 EXCEPT !.durTimers = @ + 1]
                   ELSE p0
         IN send_ADD_ROSPEC(p1, D_AddROSpec)

\* stopAllROSpecs: sends DELETE_ROSPEC(0).
stopAllROSpecs(p) ==
    Register(setState(sendLLRPMessage(p, Out("DELETE_ROSPEC", 0)),
                      STATE_SENT_DELETE_ROSPEC),
             "DELETE_ROSPEC_RESPONSE", D_StopAllROSpecs)

\* stopPolitely: sends DELETE_ACCESSSPEC(0); the Deferred it returns is the
\* last element of _deferreds['DELETE_ACCESSSPEC_RESPONSE'].
stopPolitely(p, disconnect) ==
    LET p1 == IF disconnect THEN [p EXCEPT !.disconnecting = TRUE] ELSE p
    IN Register(setState(sendLLRPMessage(p1, Out("DELETE_ACCESSSPEC", 0)),
                         STATE_SENT_DELETE_ACCESSSPEC),
                "DELETE_ACCESSSPEC_RESPONSE", D_StopPolitely)

\* d.addCallback(self.startInventory) on the Deferred stopPolitely returned.
AddStartInventory(p) ==
    LET n == "DELETE_ACCESSSPEC_RESPONSE"
        k == Len(p.deferreds[n])
    IN [p EXCEPT !.deferreds[n][k] = Append(@, Cb("startInventory", 0))]

\* Mutant: pause does not look at the state.
pause_AnyState(p, timed, force) ==
    LET p1 == Register(setState(sendLLRPMessage(getROSpec(p, FALSE),
                                                Out("DISABLE_ROSPEC", 1)),
                                STATE_PAUSING),
                       "DISABLE_ROSPEC_RESPONSE", D_Pause)
    IN IF timed THEN [p1 EXCEPT !.resumeTimers = @ + 1] ELSE p1

\* pause(duration_seconds, force, force_regen_rospec): ignored unless
\* INVENTORYING or forced; calls getROSpec(force_new=force_regen_rospec),
\* sends DISABLE_ROSPEC and arms the resume timer when duration_seconds > 0.
pauseROSpec(p, timed, force, force_regen_rospec) ==
    IF p.state # STATE_INVENTORYING /\ ~force THEN p
    ELSE LET p0 == getROSpec(p, force_regen_rospec)
             p1 == Register(setState(sendLLRPMessage(p0, Out("DISABLE_ROSPEC", 1)),
                                     STATE_PAUSING),
                            "DISABLE_ROSPEC_RESPONSE", D_Pause)
         IN IF timed THEN [p1 EXCEPT !.resumeTimers = @ + 1] ELSE p1

\* pause as the user and the engine call it: force_regen_rospec=False.
pause(p, timed, force) == pauseROSpec(p, timed, force, FALSE)

\* resume: startInventory from CONNECTED or DISCONNECTED, ENABLE_ROSPEC from
\* PAUSED, ignored elsewhere.
resume(p) ==
    IF p.state \in {STATE_CONNECTED, STATE_DISCONNECTED} THEN startInventory(p)
    ELSE IF p.state # STATE_PAUSED THEN p
    ELSE send_ENABLE_ROSPEC(getROSpec(p, FALSE), D_Resume)

\* send_ADD_ACCESSSPEC: written whatever the state, which it leaves alone.
send_ADD_ACCESSSPEC(p, onCompletion) ==
    Register(sendLLRPMessage(p, Out("ADD_ACCESSSPEC", 1)),
             "ADD_ACCESSSPEC_RESPONSE", onCompletion)

send_DISABLE_ACCESSSPEC(p, onCompletion) ==
    Register(sendLLRPMessage(p, Out("DISABLE_ACCESSSPEC", 1)),
             "DISABLE_ACCESSSPEC_RESPONSE", onCompletion)

\* send_ENABLE_ACCESSSPEC as the callback of startAccess's Deferred: no
\* onCompletion is given, so nothing is registered.
send_ENABLE_ACCESSSPEC(p) == sendLLRPMessage(p, Out("ENABLE_ACCESSSPEC", 1))

\* Mutant: DELETE_ACCESSSPEC is written and startAccess is not scheduled.
send_DELETE_ACCESSSPEC_NoRestart(p, words) ==
    sendLLRPMessage(p, Out("DELETE_ACCESSSPEC", 1))

\* send_DELETE_ACCESSSPEC: writes DELETE_ACCESSSPEC for the access spec and
\* schedules startAccess with call_soon.
send_DELETE_ACCESSSPEC(p, words) ==
    [sendLLRPMessage(p, Out("DELETE_ACCESSSPEC", 1))
        EXCEPT !.soonAccess = Append(@, words)]

\* startAccess: LLRPError without a read, write or special operation;
\* otherwise ADD_ACCESSSPEC, to be followed by ENABLE_ACCESSSPEC.
startAccess(p, words) ==
    IF words = 0 THEN [p EXCEPT !.exc = "LLRPError"]
    ELSE send_ADD_ACCESSSPEC(p, D_StartAccess)

\* nextAccess: DISABLE_ACCESSSPEC, whatever the state.
nextAccess(p, words) == send_DISABLE_ACCESSSPEC(p, D_NextAccess(words))

\* ------------------------------------------------------ firing Deferreds
\* One handler of a Deferred, called with the current result.  panic calls
\* failure.getErrorMessage() on what it is given (the state number, None or an
\* exception), which raises AttributeError.
RunHandler(p, h) ==
    CASE h.fn = "setState" -> setState(p, h.arg)
      [] h.fn = "send_ENABLE_ROSPEC" -> send_ENABLE_ROSPEC(p, D_Started)
      [] h.fn = "stopAllROSpecs" -> stopAllROSpecs(p)
      [] h.fn = "startInventory" -> startInventory(p)
      [] h.fn = "send_DELETE_ACCESSSPEC" -> send_DELETE_ACCESSSPEC(p, h.arg)
      [] h.fn = "send_ENABLE_ACCESSSPEC" -> send_ENABLE_ACCESSSPEC(p)
      [] h.fn = "complain" -> p
      [] h.fn = "panic" -> [p EXCEPT !.exc = "Error"]

\* Deferred._execute: pops the handlers in the order they were added; runs
\* those of the current slot; a handler that raises switches to the errback
\* slot, one that returns switches to the callback slot.  The result record
\* holds the protocol and whether the final result is an exception.
RECURSIVE Execute(_, _, _, _)
Execute(p, q, hidx, isExc) ==
    IF q = <<>> THEN [p |-> p, isExc |-> isExc]
    ELSE LET h == Head(q) IN
         IF h.slot # hidx THEN Execute(p, Tail(q), hidx, isExc)
         ELSE LET r == RunHandler(p, h)
                  failed == r.exc # "none"
              IN Execute([r EXCEPT !.exc = "none"], Tail(q),
                         IF failed THEN 1 ELSE 0, failed)

\* processDeferreds, from the i-th Deferred of the list on: each Deferred is
\* emptied by its _execute; an exception leaves the loop and skips the del.
RECURSIVE FireFrom(_, _, _, _, _)
FireFrom(p, ds, msgName, isSuccess, i) ==
    IF i > Len(ds) THEN [p EXCEPT !.deferreds[msgName] = <<>>]
    ELSE LET r == Execute(p, ds[i], IF isSuccess THEN 0 ELSE 1, FALSE)
             p1 == [r.p EXCEPT !.deferreds[msgName][i] = <<>>]
         IN IF r.isExc THEN [p1 EXCEPT !.exc = "Error"]
            ELSE FireFrom(p1, ds, msgName, isSuccess, i + 1)

processDeferreds(p, msgName, isSuccess) ==
    IF p.deferreds[msgName] = <<>> THEN p
    ELSE FireFrom(p, p.deferreds[msgName], msgName, isSuccess, 1)

\* --------------------------------------------------------- handleMessage
\* Mutant: the loop over the callbacks stops after the first one.
MessageCallbacks_FirstOnly(p, m) ==
    IF m.name = RO_ACCESS_REPORT
    THEN [p EXCEPT !.delivered = @ \o <<1>>]
    ELSE p

\* The per-message callbacks: every callback registered for the message name
\* is called with the message, before the state machine looks at it.  The
\* engine registers callbacks for RO_ACCESS_REPORT only (addTagReportCallback).
MessageCallbacks(p, m) ==
    IF m.name = RO_ACCESS_REPORT
    THEN [p EXCEPT !.delivered = @ \o [c \in 1..NCallbacks |-> c]]
    ELSE p

\* lmsg.msgdict[msgName]['LLRPStatus'][...]: KeyError on a message that has
\* no LLRPStatus.
StatusLookup(p, m) ==
    IF m.name \in NoLLRPStatus THEN [p EXCEPT !.exc = "Error"] ELSE p

\* Mutant: the status of the notification is not looked at.
HandleConnecting_AnyStatus(p, m) ==
    IF m.name # REN THEN p
    ELSE send_GET_READER_CAPABILITIES(p, D_GetCapabilities)

\* DISCONNECTED, CONNECTING, CONNECTED: only READER_EVENT_NOTIFICATION.
HandleConnecting(p, m) ==
    IF m.name # REN THEN p
    ELSE IF ~m.ok THEN p
    ELSE LET p1 == processDeferreds(p, m.name, m.ok)
         IN IF p1.exc # "none" THEN p1
            ELSE send_GET_READER_CAPABILITIES(p1, D_GetCapabilities)

\* SENT_GET_CAPABILITIES: parse the capabilities, fire the Deferreds, then
\* reset the reader and/or start the inventory as configured.
HandleSentGetCapabilities(p, m) ==
    IF m.name # "GET_READER_CAPABILITIES_RESPONSE" THEN p
    ELSE IF ~m.ok THEN p
    ELSE IF m.bad THEN [p EXCEPT !.exc = "LLRPError"]
    ELSE LET p1 == processDeferreds(p, m.name, m.ok)
         IN IF p1.exc # "none" THEN p1
            ELSE IF reset_on_connect
                 THEN LET p2 == stopPolitely(p1, FALSE)
                      IN IF start_inventory THEN AddStartInventory(p2) ELSE p2
                 ELSE IF start_inventory THEN startInventory(p1) ELSE p1

\* Mutant: the ADD_ROSPEC_RESPONSE fires nothing.
HandleSentAddROSpec_Drops(p, m) == p

\* SENT_ADD_ROSPEC
HandleSentAddROSpec(p, m) ==
    IF m.name # "ADD_ROSPEC_RESPONSE" THEN p
    ELSE IF ~m.ok THEN p
    ELSE processDeferreds(p, m.name, m.ok)

\* PAUSING: an unexpected name is logged, and handling goes on.
HandlePausing(p, m) ==
    LET p1 == IF ~m.ok THEN StatusLookup(p, m) ELSE p
    IN IF p1.exc # "none" THEN p1
       ELSE processDeferreds(p1, m.name, m.ok)

\* Mutant: the failure status is logged, and handling goes on.
HandleSentEnableROSpec_NoReturn(p, m) ==
    LET p1 == IF ~m.ok THEN StatusLookup(p, m) ELSE p
    IN IF p1.exc # "none" THEN p1
       ELSE processDeferreds(p1, m.name, TRUE)

\* SENT_ENABLE_ROSPEC: an unexpected name is logged, and handling goes on.
HandleSentEnableROSpec(p, m) ==
    IF ~m.ok THEN StatusLookup(p, m)
    ELSE processDeferreds(p, m.name, m.ok)

\* INVENTORYING
HandleInventorying(p, m) ==
    IF m.name \notin {RO_ACCESS_REPORT, REN, "ADD_ACCESSSPEC_RESPONSE",
                      "ENABLE_ACCESSSPEC_RESPONSE",
                      "DISABLE_ACCESSSPEC_RESPONSE",
                      "DELETE_ACCESSSPEC_RESPONSE"}
    THEN p
    ELSE processDeferreds(p, m.name, m.ok)

\* SENT_DELETE_ACCESSSPEC: an unexpected name is logged, and handling goes on.
HandleSentDeleteAccessSpec(p, m) == processDeferreds(p, m.name, m.ok)

\* Mutant: the socket is not closed after the Deferreds have fired.
HandleSentDeleteROSpec_NoClose(p, m) ==
    LET p1 == IF m.ok
              THEN setState(p, IF p.disconnecting THEN STATE_DISCONNECTED
                                                  ELSE STATE_CONNECTED)
              ELSE StatusLookup(p, m)
    IN IF p1.exc # "none" THEN p1 ELSE processDeferreds(p1, m.name, m.ok)

\* SENT_DELETE_ROSPEC: an unexpected name is logged, and handling goes on.
HandleSentDeleteROSpec(p, m) ==
    LET p1 == IF m.ok
              THEN setState(p, IF p.disconnecting THEN STATE_DISCONNECTED
                                                  ELSE STATE_CONNECTED)
              ELSE StatusLookup(p, m)
        p2 == IF p1.exc # "none" THEN p1 ELSE processDeferreds(p1, m.name, m.ok)
    IN IF p2.exc = "none" /\ p2.disconnecting
       THEN [p2 EXCEPT !.closed = TRUE]
       ELSE p2

\* The state machine proper, after the callbacks, KEEPALIVE and the
\* RO_ACCESS_REPORT filter.
StateMachine(p, m) ==
    CASE p.state \in {STATE_DISCONNECTED, STATE_CONNECTING, STATE_CONNECTED}
           -> HandleConnecting(p, m)
      [] p.state = STATE_SENT_GET_CAPABILITIES -> HandleSentGetCapabilities(p, m)
      [] p.state = STATE_SENT_ADD_ROSPEC -> HandleSentAddROSpec(p, m)
      [] p.state = STATE_PAUSING -> HandlePausing(p, m)
      [] p.state = STATE_SENT_ENABLE_ROSPEC -> HandleSentEnableROSpec(p, m)
      [] p.state = STATE_INVENTORYING -> HandleInventorying(p, m)
      [] p.state = STATE_SENT_DELETE_ACCESSSPEC -> HandleSentDeleteAccessSpec(p, m)
      [] p.state = STATE_SENT_DELETE_ROSPEC -> HandleSentDeleteROSpec(p, m)
      [] OTHER -> p

\* Mutant: a KEEPALIVE that arrives before the handshake is ignored.
HandleKeepalive_AfterHandshake(p) ==
    IF p.state \in {STATE_DISCONNECTED, STATE_CONNECTING} THEN p
    ELSE send_KEEPALIVE_ACK(p)

\* KEEPALIVE is acknowledged in any state.
HandleKeepalive(p) == send_KEEPALIVE_ACK(p)

\* RO_ACCESS_REPORT is ignored by the state machine unless INVENTORYING.
IgnoresReport(p, m) ==
    m.name = RO_ACCESS_REPORT /\ p.state # STATE_INVENTORYING

handleMessage(p, m) ==
    LET p1 == MessageCallbacks(p, m)
    IN IF m.name = KEEPALIVE THEN HandleKeepalive(p1)
       ELSE IF IgnoresReport(p1, m) THEN p1
       ELSE StateMachine(p1, m)

\* ------------------------------------------------------------ the steps
\* The protocol object as the operations above see it, before a step.
Cur ==
    [state |-> state, disconnecting |-> disconnecting, deferreds |-> deferreds,
     closed |-> closed, durTimers |-> durTimers, resumeTimers |-> resumeTimers,
     soonAccess |-> soonAccess, rospec |-> rospec, added |-> added,
     tx_power |-> tx_power,
     delivered |-> <<>>, out |-> <<>>, exc |-> "none"]

\* The requests among the messages a step wrote (KEEPALIVE_ACK has no answer).
RECURSIVE RequestsOf(_)
RequestsOf(q) ==
    IF q = <<>> THEN <<>>
    ELSE IF Head(q).name \in Requests THEN <<Head(q)>> \o RequestsOf(Tail(q))
    ELSE RequestsOf(Tail(q))

\* What the reader has still to answer after a step that wrote q.
NewOutbox(box, q) == box \o RequestsOf(q)

\* History of the teardown: 1 once DELETE_ACCESSSPEC(0) was written, 2 once
\* DELETE_ROSPEC(0) was written after that, 3 once a DELETE_ROSPEC_RESPONSE was
\* received after that.
RECURSIVE TeardownAfterWrites(_, _)
TeardownAfterWrites(t, q) ==
    IF q = <<>> THEN t
    ELSE LET w == Head(q)
             t1 == IF t = 0 /\ w = Out("DELETE_ACCESSSPEC", 0) THEN 1
                   ELSE IF t = 1 /\ w = Out("DELETE_ROSPEC", 0) THEN 2
                   ELSE t
         IN TeardownAfterWrites(t1, Tail(q))

TeardownAfterStep(t, received, q) ==
    TeardownAfterWrites(IF t = 2 /\ received = "DELETE_ROSPEC_RESPONSE"
                        THEN 3 ELSE t, q)

\* The names of a sequence of written messages.
NamesOf(q) == [i \in DOMAIN q |-> q[i].name]

WithinBounds(p, box) ==
    /\ Len(box) <= MaxOutbox
    /\ \A n \in DeferredNames : Len(p.deferreds[n]) <= MaxDeferreds
    /\ p.durTimers <= MaxTimers
    /\ p.resumeTimers <= MaxTimers
    /\ Len(p.soonAccess) <= MaxTimers

\* The protocol's fields after a step that left it as p; `received` is the
\* name of the message the step handled ("" if none), `box` what the reader
\* had still to answer before the step's own writes.
Commit(p, received, box) ==
    /\ WithinBounds(p, NewOutbox(box, p.out))
    /\ state' = p.state
    /\ disconnecting' = p.disconnecting
    /\ deferreds' = p.deferreds
    /\ closed' = p.closed
    /\ durTimers' = p.durTimers
    /\ resumeTimers' = p.resumeTimers
    /\ soonAccess' = p.soonAccess
    /\ rospec' = p.rospec
    /\ added' = p.added
    /\ delivered' = p.delivered
    /\ out' = p.out
    /\ raised' = p.exc
    /\ outbox' = NewOutbox(box, p.out)
    /\ teardown' = TeardownAfterStep(teardown, received, p.out)
    /\ sent' = IF logging THEN sent \o NamesOf(RequestsOf(p.out)) ELSE sent

Config == <<reset_on_connect, start_inventory, duration,
            disconnect_when_done, logging>>

\* The receive buffer of data_received and the stream it is fed.
Framing == <<stream, pos, partialData, expectingRemainingBytes, handed>>

\* The reader's capabilities and the settings parseCapabilities adjusts.
Caps == <<capdict, antennas, tx_power, tx_power_table, modulation, tari,
          reader_mode>>

\* The fields of the engine.
Engine == <<reconnect, protocols, connecting, reconnectTimers, finishes,
            attempts, protos, host, coroutines, targets, wanted>>

\* data_received with one whole frame: the message is handed to handleMessage.
\* The transport reads only between connection_made and close().
Receive(m, box) ==
    /\ conn = "made" /\ ~closed
    /\ Commit(handleMessage(Cur, m), m.name, box)
    /\ UNCHANGED <<conn, soonStops, shutdown, calls, Config, Framing, Caps, Engine>>

\* The protocol's fields after __init__, and the histories kept about it.
Fresh ==
    /\ state = STATE_DISCONNECTED
    /\ disconnecting = FALSE
    /\ deferreds = [n \in DeferredNames |-> <<>>]
    /\ closed = FALSE
    /\ conn = "new"
    /\ durTimers = 0
    /\ resumeTimers = 0
    /\ soonAccess = <<>>
    /\ rospec = <<>>
    /\ added = <<>>
    /\ soonStops = 0
    /\ outbox = <<>>
    /\ out = <<>>
    /\ delivered = <<>>
    /\ raised = "none"
    /\ greeted = FALSE
    /\ shutdown = FALSE
    /\ calls = 0
    /\ teardown = 0
    /\ sent = <<>>

\* No byte has arrived: the receive buffer as __init__ leaves it.
NoStream ==
    /\ stream = <<>>
    /\ pos = 0
    /\ partialData = <<>>
    /\ expectingRemainingBytes = 0
    /\ handed = <<>>

\* A protocol object as build_protocol returns it, with what its reader has
\* still to answer and whether the reader has greeted it.
FreshConn ==
    [p |-> [state |-> STATE_DISCONNECTED, disconnecting |-> FALSE,
            deferreds |-> [n \in DeferredNames |-> <<>>], closed |-> FALSE,
            durTimers |-> 0, resumeTimers |-> 0, soonAccess |-> <<>>,
            rospec |-> <<>>, added |-> <<>>, tx_power |-> 0, delivered |-> <<>>,
            out |-> <<>>, exc |-> "none"],
     box |-> <<>>, greeted |-> FALSE]

\* The hosts of the readers.
HostNames == {"a", "b"}

\* self.host = (None, None), and no connection asked for.
NoTargets ==
    /\ host = "none"
    /\ coroutines = <<>>
    /\ targets = [k \in 1..MaxAttempts |-> [to |-> "none", asked |-> "none"]]
    /\ wanted = <<>>

\* The engine as its __init__ leaves it, before any new_reader().
NoEngine ==
    /\ reconnect = FALSE
    /\ protocols = {}
    /\ connecting = {}
    /\ reconnectTimers = 0
    /\ finishes = 0
    /\ attempts = 0
    /\ NoTargets
    /\ protos = [k \in 1..MaxAttempts |-> FreshConn]

\* The settings __init__ takes by default, before any capabilities have
\* arrived: antennas=(1,), tx_power=0, tari=0, the default modulation.
NoCaps ==
    /\ capdict = <<>>
    /\ antennas = <<1>>
    /\ tx_power = 0
    /\ tx_power_table = <<>>
    /\ modulation = 0
    /\ tari = 0
    /\ reader_mode = <<>>

Init ==
    /\ Fresh
    /\ reset_on_connect \in BOOLEAN
    /\ start_inventory \in BOOLEAN
    /\ duration \in BOOLEAN
    /\ disconnect_when_done = TRUE
    /\ logging = FALSE
    /\ NoStream
    /\ NoEngine
    /\ NoCaps

\* connection_made: the transport is set and the protocol joins the engine's set.
ConnectionMade ==
    /\ conn = "new"
    /\ conn' = "made"
    /\ out' = <<>>
    /\ delivered' = <<>>
    /\ raised' = "none"
    /\ UNCHANGED <<state, disconnecting, deferreds, closed, durTimers,
                   resumeTimers, soonAccess, rospec, added, soonStops, outbox, Config, Framing, Caps, Engine, greeted, shutdown, calls, teardown, sent>>

\* connection_lost: the protocol leaves the engine's set; its state stays.
ConnectionLost ==
    /\ conn = "made"
    /\ conn' = "lost"
    /\ out' = <<>>
    /\ delivered' = <<>>
    /\ raised' = "none"
    /\ UNCHANGED <<state, disconnecting, deferreds, closed, durTimers,
                   resumeTimers, soonAccess, rospec, added, soonStops, outbox, Config, Framing, Caps, Engine, greeted, shutdown, calls, teardown, sent>>

\* The reader's first message: READER_EVENT_NOTIFICATION with the
\* ConnectionAttemptEvent.
ReaderGreets(ok) ==
    /\ ~greeted
    /\ greeted' = TRUE
    /\ Receive(Msg(REN, ok, FALSE), outbox)

\* The reader answers the oldest unanswered request, with Success or with a
\* failure status; `bad` capabilities make parseCapabilities raise.
ReaderAnswers(ok, bad) ==
    /\ greeted
    /\ outbox # <<>>
    /\ bad => (ok /\ Head(outbox).name = "GET_READER_CAPABILITIES")
    /\ Receive(Msg(Resp(Head(outbox).name), ok, bad), Tail(outbox))
    /\ UNCHANGED greeted

\* The reader sends a message of its own: a KEEPALIVE, a tag report or a
\* later event notification.
ReaderSends(m) ==
    /\ greeted
    /\ Receive(m, outbox)
    /\ UNCHANGED greeted

\* A call of a protocol method by the user (through the engine, or from a
\* callback that was handed the protocol).
Call(p) ==
    /\ conn = "made"
    /\ calls < MaxCalls
    /\ calls' = calls + 1
    /\ Commit(p, "", outbox)
    /\ UNCHANGED <<conn, soonStops, Config, Framing, Caps, Engine, greeted, shutdown>>

CallStopPolitely(disconnect) == Call(stopPolitely(Cur, disconnect))

CallPause(timed, force) == Call(pause(Cur, timed, force))

CallResume == Call(resume(Cur))

CallStartInventory == Call(startInventory(Cur))

\* LLRPEngine.politeShutdown: call_soon(proto.stopPolitely, True) for every
\* protocol of the engine's set.
PoliteShutdown ==
    /\ conn = "made"
    /\ calls < MaxCalls
    /\ calls' = calls + 1
    /\ soonStops < MaxTimers
    /\ soonStops' = soonStops + 1
    /\ shutdown' = TRUE
    /\ out' = <<>>
    /\ delivered' = <<>>
    /\ raised' = "none"
    /\ UNCHANGED <<state, disconnecting, deferreds, closed, conn, durTimers,
                   resumeTimers, soonAccess, rospec, added, outbox, Config, Framing, Caps, Engine, greeted,
                   teardown, sent>>

\* The event loop runs a scheduled stopPolitely(True).
SoonStopFires ==
    /\ soonStops > 0
    /\ soonStops' = soonStops - 1
    /\ Commit(stopPolitely(Cur, TRUE), "", outbox)
    /\ UNCHANGED <<conn, Config, Framing, Caps, Engine, greeted, shutdown, calls>>

\* The duration timer armed by startInventory fires: stopPolitely(True).
DurationTimerFires ==
    /\ durTimers > 0
    /\ Commit(stopPolitely([Cur EXCEPT !.durTimers = @ - 1], TRUE), "", outbox)
    /\ UNCHANGED <<conn, soonStops, Config, Framing, Caps, Engine, greeted, shutdown, calls>>

\* The timer armed by a timed pause fires: resume().
ResumeTimerFires ==
    /\ resumeTimers > 0
    /\ Commit(resume([Cur EXCEPT !.resumeTimers = @ - 1]), "", outbox)
    /\ UNCHANGED <<conn, soonStops, Config, Framing, Caps, Engine, greeted, shutdown, calls>>

\* What the user and the event loop do, whatever the reader.
ClientStep ==
    \/ ConnectionMade
    \/ ConnectionLost
    \/ \E d \in BOOLEAN : CallStopPolitely(d)
    \/ \E timed, force \in BOOLEAN : CallPause(timed, force)
    \/ CallResume
    \/ CallStartInventory
    \/ PoliteShutdown
    \/ SoonStopFires
    \/ DurationTimerFires
    \/ ResumeTimerFires

\* Any reader that keeps to the protocol.
Next ==
    \/ ClientStep
    \/ \E ok \in BOOLEAN : ReaderGreets(ok)
    \/ \E ok, bad \in BOOLEAN : ReaderAnswers(ok, bad)
    \/ \E m \in Unsolicited : ReaderSends(m)

\* The reader that greets and answers with Success only.
PoliteNext ==
    \/ ClientStep
    \/ ReaderGreets(TRUE)
    \/ ReaderAnswers(TRUE, FALSE)
    \/ \E m \in PoliteUnsolicited : ReaderSends(m)

Spec == Init /\ [][Next]_vars

PoliteSpec == Init /\ [][PoliteNext]_vars

\* A fresh connection whose requests are recorded in `sent`, with any
\* configuration of the protocol.
HappyInit ==
    /\ Fresh
    /\ reset_on_connect \in BOOLEAN
    /\ start_inventory \in BOOLEAN
    /\ duration \in BOOLEAN
    /\ disconnect_when_done \in BOOLEAN
    /\ logging = TRUE
    /\ NoStream
    /\ NoEngine
    /\ NoCaps

\* The connection is made and the reader greets and answers with Success;
\* the user calls nothing and no timer fires.
HappyNext ==
    \/ ConnectionMade
    \/ ReaderGreets(TRUE)
    \/ ReaderAnswers(TRUE, FALSE)
    \/ \E m \in PoliteUnsolicited : ReaderSends(m)

\* The reader does greet, and does answer every request.
HappySpec ==
    /\ HappyInit
    /\ [][HappyNext]_vars
    /\ WF_vars(ConnectionMade)
    /\ WF_vars(ReaderGreets(TRUE))
    /\ WF_vars(ReaderAnswers(TRUE, FALSE))

\* The same connection with its duration timer.
TimedNext ==
    \/ HappyNext
    \/ DurationTimerFires

TimedSpec == HappyInit /\ [][TimedNext]_vars

\* ------------------------------------------------------------ framing
\* LLRPMessage.full_hdr_len: 2 bytes of version and type, 4 of length, 4 of
\* message id.
full_hdr_len == 10

\* The message types of the streams below; the model numbers them 1, 2, 3 on
\* the wire (the codec's own numbering is not part of this model).
TypeNames == <<REN, "GET_READER_CAPABILITIES_RESPONSE", KEEPALIVE>>

\* struct.unpack of the header: '!H' for the type, '!I' for the length.
UnpackH(b) == b[1] * 256 + b[2]
UnpackI(b) == ((b[1] * 256 + b[2]) * 256 + b[3]) * 256 + b[4]

\* A well-formed frame: the header with the frame's own length, then the body.
Frame(type, body) ==
    <<type \div 256, type % 256, 0, 0, 0, full_hdr_len + Len(body),
      0, 0, 0, 0>> \o body

\* The frames of the streams: a successful connection-attempt notification,
\* capabilities the client's settings accept, capabilities for which
\* parseCapabilities raises LLRPError, and a KEEPALIVE.
Frames ==
    {Frame(1, <<0>>), Frame(2, <<0>>), Frame(2, <<2>>), Frame(3, <<>>)}

RECURSIVE Concat(_)
Concat(fs) == IF fs = <<>> THEN <<>> ELSE Head(fs) \o Concat(Tail(fs))

Streams ==
    {Concat(fs) : fs \in UNION {[1..n -> Frames] : n \in 1..MaxFrames}}

\* LLRPMessage(msgbytes=...): "LLRPError" without bytes or without a decoder
\* for the type, "Error" (struct.error) on less than a header, else the
\* message; the first body byte tells the status (Success unless 1) and
\* whether the capabilities fit the client's settings (not if 2).
Deserialize(bytes) ==
    IF bytes = <<>> THEN [exc |-> "LLRPError"]
    ELSE IF Len(bytes) < full_hdr_len THEN [exc |-> "Error"]
    ELSE LET type == UnpackH(bytes) % 1024
             body == SubSeq(bytes, full_hdr_len + 1, Len(bytes))
             st == IF body = <<>> THEN 1 ELSE body[1]
         IN IF type \notin DOMAIN TypeNames THEN [exc |-> "LLRPError"]
            ELSE [exc |-> "none",
                  msg |-> Msg(TypeNames[type], st # 1,
                              st = 2 /\ type = 2)]

\* The receive state of a protocol: the protocol record, the buffer, and the
\* frames handed to handleMessage so far.  r.exc is the exception that leaves
\* data_received, if any.
Rx(p, partial, expecting, hs, exc) ==
    [p |-> p, partialData |-> partial, expectingRemainingBytes |-> expecting,
     handed |-> hs, exc |-> exc]

\* The while loop of data_received over the bytes in `data`.
RECURSIVE FrameLoop(_, _)
FrameLoop(r, data) ==
    IF data = <<>> THEN r
    ELSE IF Len(data) < full_hdr_len
    THEN [r EXCEPT !.partialData = data,
                   !.expectingRemainingBytes = full_hdr_len - Len(data)]
    ELSE LET msg_len == UnpackI(SubSeq(data, 3, 6)) IN
         IF Len(data) < msg_len
         THEN [r EXCEPT !.partialData = data,
                        !.expectingRemainingBytes = msg_len - Len(data)]
         ELSE LET r0 == [r EXCEPT !.expectingRemainingBytes = 0]
                  bytes == SubSeq(data, 1, msg_len)
                  lmsg == Deserialize(bytes)
              IN IF lmsg.exc = "LLRPError" THEN r0
                 ELSE IF lmsg.exc # "none" THEN [r0 EXCEPT !.exc = lmsg.exc]
                 ELSE LET p1 == handleMessage(r0.p, lmsg.msg)
                          r1 == [r0 EXCEPT !.p = [p1 EXCEPT !.exc = "none"],
                                           !.handed = Append(@, bytes)]
                      IN IF p1.exc = "LLRPError" THEN r1
                         ELSE IF p1.exc # "none"
                         THEN [r1 EXCEPT !.exc = p1.exc]
                         ELSE FrameLoop(r1, SubSeq(data, msg_len + 1, Len(data)))

\* data_received: a chunk that still does not complete what is expected is
\* kept; otherwise the kept bytes are put before it and the loop runs.
data_received(r, data) ==
    IF r.expectingRemainingBytes # 0
    THEN IF Len(data) >= r.expectingRemainingBytes
         THEN LET all == r.partialData \o data
              IN FrameLoop([r EXCEPT !.partialData = <<>>,
                                     !.expectingRemainingBytes = @ - Len(all)],
                           all)
         ELSE [r EXCEPT !.partialData = @ \o data,
                        !.expectingRemainingBytes = @ - Len(data)]
    ELSE FrameLoop(r, data)

\* The receive state before the step, and that of a protocol just built.
CurRx == Rx(Cur, partialData, expectingRemainingBytes, handed, "none")

FreshRx ==
    Rx([state |-> STATE_DISCONNECTED, disconnecting |-> FALSE,
        deferreds |-> [n \in DeferredNames |-> <<>>], closed |-> FALSE,
        durTimers |-> 0, resumeTimers |-> 0, soonAccess |-> <<>>,
            rospec |-> <<>>, added |-> <<>>, tx_power |-> 0, delivered |-> <<>>,
        out |-> <<>>, exc |-> "none"],
       <<>>, 0, <<>>, "none")

\* The protocol's fields and the buffer after a data_received that left r.
CommitRx(r) ==
    /\ state' = r.p.state
    /\ disconnecting' = r.p.disconnecting
    /\ deferreds' = r.p.deferreds
    /\ closed' = r.p.closed
    /\ durTimers' = r.p.durTimers
    /\ resumeTimers' = r.p.resumeTimers
    /\ soonAccess' = r.p.soonAccess
    /\ rospec' = r.p.rospec
    /\ added' = r.p.added
    /\ delivered' = r.p.delivered
    /\ out' = r.p.out
    /\ raised' = r.exc
    /\ partialData' = r.partialData
    /\ expectingRemainingBytes' = r.expectingRemainingBytes
    /\ handed' = r.handed

\* The transport passes the next n bytes of the stream to data_received.
DataReceived(n) ==
    /\ conn = "made" /\ ~closed
    /\ pos + n <= Len(stream)
    /\ CommitRx(data_received(CurRx, SubSeq(stream, pos + 1, pos + n)))
    /\ pos' = pos + n
    /\ UNCHANGED <<conn, soonStops, outbox, greeted, shutdown, calls,
                   teardown, sent, stream, Config, Engine, Caps>>

\* A connection that is about to receive one of the streams.
FrameInit ==
    /\ Fresh
    /\ reset_on_connect \in BOOLEAN
    /\ start_inventory \in BOOLEAN
    /\ duration = FALSE
    /\ disconnect_when_done = TRUE
    /\ logging = FALSE
    /\ stream \in Streams
    /\ pos = 0
    /\ partialData = <<>>
    /\ expectingRemainingBytes = 0
    /\ handed = <<>>
    /\ NoEngine
    /\ NoCaps

FrameNext ==
    \/ ConnectionMade
    \/ \E n \in 1..(MaxFrames * (full_hdr_len + 1)) : DataReceived(n)

FrameSpec == FrameInit /\ [][FrameNext]_vars

\* A frame whose type has no entry in Message_Type2Name.
UnknownFrame == Frame(4, <<>>)

\* Streams in which frames of an unknown type stand among well-formed ones.
UnknownStreams ==
    {Concat(fs) : fs \in UNION {[1..n -> {Frame(1, <<0>>), UnknownFrame,
                                          Frame(3, <<>>)}] :
                                 n \in 1..MaxFrames}}

\* The frames of a stream of whole frames, by their length fields.
RECURSIVE FramesOf(_)
FramesOf(data) ==
    IF data = <<>> THEN <<>>
    ELSE LET msg_len == UnpackI(SubSeq(data, 3, 6))
         IN <<SubSeq(data, 1, msg_len)>>
            \o FramesOf(SubSeq(data, msg_len + 1, Len(data)))

\* The frames among fs that the codec can decode.
RECURSIVE Decodable(_)
Decodable(fs) ==
    IF fs = <<>> THEN <<>>
    ELSE IF Deserialize(Head(fs)).exc = "none"
    THEN <<Head(fs)>> \o Decodable(Tail(fs))
    ELSE Decodable(Tail(fs))

UnknownInit ==
    /\ Fresh
    /\ reset_on_connect \in BOOLEAN
    /\ start_inventory \in BOOLEAN
    /\ duration = FALSE
    /\ disconnect_when_done = TRUE
    /\ logging = FALSE
    /\ stream \in UnknownStreams
    /\ pos = 0
    /\ partialData = <<>>
    /\ expectingRemainingBytes = 0
    /\ handed = <<>>
    /\ NoEngine
    /\ NoCaps

UnknownSpec == UnknownInit /\ [][FrameNext]_vars

\* ---------------------------------------------------------------- the engine
\* One LLRPEngine and the connections it makes: every _connect() coroutine is
\* an attempt, numbered in the order they start; an attempt either gets its
\* connection (build_protocol, then connection_made) or times out.

\* The variables of the one protocol the other specifications follow; the
\* engine's protocols are in protos.
Single == <<state, disconnecting, deferreds, closed, conn, durTimers,
            resumeTimers, soonAccess, rospec, added, soonStops, outbox, out, delivered, raised, greeted,
            shutdown, calls, teardown, sent>>

\* A loss handler that never reconnects.
clientConnectionLost_NoReconnect(e, left) ==
    IF left = {} THEN <<e[1], e[2] + 1>> ELSE e

\* clientConnectionLost and clientConnectionFailed have the same body: with
\* reconnect a call_later(reconnect_delay, _connect); without it, and with no
\* connection left in the set, a call_soon(onFinish, None).  e is the pair
\* <<reconnectTimers, finishes>> before the call, left is the set after the
\* removal.
clientConnectionLost(e, left) ==
    IF reconnect THEN <<e[1] + 1, e[2]>>
    ELSE IF left = {} THEN <<e[1], e[2] + 1>>
    ELSE e

clientConnectionFailed(e, left) ==
    IF reconnect THEN <<e[1] + 1, e[2]>>
    ELSE IF left = {} THEN <<e[1], e[2] + 1>>
    ELSE e

\* The timers and the onFinish calls after a loss or a failure.
Scheduled(e) ==
    /\ reconnectTimers' = e[1]
    /\ finishes' = e[2]

\* A _connect() coroutine starts: create_connection to self.host as it is
\* now (`to`); `asked` is the host the coroutine was made for.
StartConnect(to, asked) ==
    /\ attempts < MaxAttempts
    /\ attempts' = attempts + 1
    /\ connecting' = connecting \cup {attempts + 1}
    /\ targets' = [targets EXCEPT ![attempts + 1] =
                                    [to |-> to, asked |-> asked]]

\* new_reader(host, port, timeout), the coroutine it returns being run at
\* once.
NewReader(h) ==
    /\ coroutines = <<>>
    /\ host' = h
    /\ StartConnect(h, h)
    /\ UNCHANGED <<Single, Config, Framing, Caps, reconnect, protocols,
                   reconnectTimers, finishes, protos, coroutines, wanted>>

\* new_reader(host, port, timeout): self.host is overwritten and a _connect()
\* coroutine is returned, to be run later (LLRPClient.run gathers them).
NewReaderCall(h) ==
    /\ attempts + Len(coroutines) < MaxAttempts
    /\ host' = h
    /\ coroutines' = Append(coroutines, h)
    /\ UNCHANGED <<Single, Config, Framing, Caps, reconnect, protocols,
                   connecting, reconnectTimers, finishes, attempts, protos,
                   targets, wanted>>

\* The event loop runs the oldest coroutine: it reads self.host.
CoroutineRuns ==
    /\ coroutines # <<>>
    /\ coroutines' = Tail(coroutines)
    /\ StartConnect(host, Head(coroutines))
    /\ UNCHANGED <<Single, Config, Framing, Caps, reconnect, protocols,
                   reconnectTimers, finishes, protos, host, wanted>>

\* The hosts the pending reconnect timers are for, after a loss or a failure
\* of a connection to (or for) host h.
Wanted(h) ==
    wanted' = IF reconnectTimers' > reconnectTimers
              THEN Append(wanted, h) ELSE wanted

\* The connection of attempt k is made: build_protocol builds a protocol and
\* connection_made adds it to the engine's set.
Connected(k) ==
    /\ k \in connecting
    /\ connecting' = connecting \ {k}
    /\ protocols' = protocols \cup {k}
    /\ protos' = [protos EXCEPT ![k] = FreshConn]
    /\ UNCHANGED <<Single, Config, Framing, Caps, reconnect,
                   reconnectTimers, finishes, attempts, host, coroutines,
                   targets, wanted>>

\* wait_for gives up on attempt k: clientConnectionFailed.
ConnectTimeout(k) ==
    /\ k \in connecting
    /\ connecting' = connecting \ {k}
    /\ Scheduled(clientConnectionFailed(<<reconnectTimers, finishes>>,
                                        protocols))
    /\ Wanted(targets[k].asked)
    /\ UNCHANGED <<Single, Config, Framing, Caps, reconnect, protocols,
                   attempts, protos, host, coroutines, targets>>

\* connection_lost of protocol k: it leaves the set, then
\* clientConnectionLost.
EngineConnectionLost(k) ==
    /\ k \in protocols
    /\ protocols' = protocols \ {k}
    /\ Scheduled(clientConnectionLost(<<reconnectTimers, finishes>>,
                                      protocols \ {k}))
    /\ Wanted(targets[k].to)
    /\ UNCHANGED <<Single, Config, Framing, Caps, reconnect, connecting,
                   attempts, protos, host, coroutines, targets>>

\* A reconnect timer fires: ensure_future(self._connect()).
ReconnectTimerFires ==
    /\ reconnectTimers > 0
    /\ reconnectTimers' = reconnectTimers - 1
    /\ wanted # <<>>
    /\ wanted' = Tail(wanted)
    /\ StartConnect(host, Head(wanted))
    /\ UNCHANGED <<Single, Config, Framing, Caps, reconnect, protocols,
                   finishes, protos, host, coroutines>>

\* Protocol c after handleMessage has returned p, with box what its reader
\* had to answer besides.
ConnAfter(p, box) ==
    [p |-> p, box |-> box \o RequestsOf(p.out), greeted |-> TRUE]

\* Protocol c handles message m.
ConnStep(c, m, box) ==
    ConnAfter(handleMessage([c.p EXCEPT !.out = <<>>, !.delivered = <<>>,
                                        !.exc = "none"], m), box)

\* The reader of connection k greets it.
EngineGreets(k) ==
    /\ k \in protocols
    /\ ~protos[k].greeted
    /\ protos' = [protos EXCEPT
                    ![k] = ConnStep(@, Msg(REN, TRUE, FALSE), @.box)]
    /\ UNCHANGED <<Single, Config, Framing, Caps, reconnect, protocols,
                   connecting, reconnectTimers, finishes, attempts, host,
                   coroutines, targets, wanted>>

\* The reader of connection k answers its oldest unanswered request.
EngineAnswers(k) ==
    /\ k \in protocols
    /\ protos[k].box # <<>>
    /\ protos' = [protos EXCEPT
                    ![k] = ConnStep(@, Msg(Resp(Head(@.box).name), TRUE,
                                           FALSE), Tail(@.box))]
    /\ UNCHANGED <<Single, Config, Framing, Caps, reconnect, protocols,
                   connecting, reconnectTimers, finishes, attempts, host,
                   coroutines, targets, wanted>>

EngineInit ==
    /\ Fresh
    /\ reset_on_connect \in BOOLEAN
    /\ start_inventory = TRUE
    /\ duration = FALSE
    /\ disconnect_when_done = TRUE
    /\ logging = FALSE
    /\ NoStream
    /\ reconnect \in BOOLEAN
    /\ protocols = {}
    /\ connecting = {}
    /\ reconnectTimers = 0
    /\ finishes = 0
    /\ attempts = 0
    /\ NoTargets
    /\ protos = [k \in 1..MaxAttempts |-> FreshConn]
    /\ NoCaps

EngineNext ==
    \/ \E h \in HostNames : NewReader(h)
    \/ ReconnectTimerFires
    \/ \E k \in 1..MaxAttempts :
          \/ Connected(k)
          \/ ConnectTimeout(k)
          \/ EngineConnectionLost(k)
          \/ EngineGreets(k)
          \/ EngineAnswers(k)

EngineSpec == EngineInit /\ [][EngineNext]_vars

\* The engine as LLRPClient.run uses it: new_reader for every host first,
\* the coroutines run afterwards; connections are made, time out and are lost.
HostNext ==
    \/ \E h \in HostNames : NewReaderCall(h)
    \/ CoroutineRuns
    \/ ReconnectTimerFires
    \/ \E k \in 1..MaxAttempts :
          \/ Connected(k)
          \/ ConnectTimeout(k)
          \/ EngineConnectionLost(k)

HostSpec == EngineInit /\ [][HostNext]_vars

\* -------------------------------------------------------- capabilities
\* A dBm value: TransmitPowerValue / 100.0, held as its whole part and its
\* hundredths.
Dbm(v) == [whole |-> v \div 100, hundredths |-> v % 100]

\* The 0 that fills a new power table.
Zero == Dbm(0)

Less(a, b) ==
    \/ a.whole < b.whole
    \/ a.whole = b.whole /\ a.hundredths < b.hundredths

Range(tbl) == {tbl[i] : i \in DOMAIN tbl}

\* max(list) and min(list), and list.index(value): the first position (from
\* 0) that holds the value.
PyMax(tbl) == CHOOSE x \in Range(tbl) : \A y \in Range(tbl) : ~Less(x, y)
PyMin(tbl) == CHOOSE x \in Range(tbl) : \A y \in Range(tbl) : ~Less(y, x)
PyIndex(tbl, x) ==
    CHOOSE i \in 0..(Len(tbl) - 1) :
        /\ tbl[i + 1] = x
        /\ \A j \in 0..(i - 1) : tbl[j + 1] # x

\* list[i]: positions count from 0, negative ones from the end; elsewhere
\* IndexError.
InList(tbl, i) == -Len(tbl) <= i /\ i < Len(tbl)
PyGet(tbl, i) == IF i >= 0 THEN tbl[i + 1] ELSE tbl[Len(tbl) + i + 1]

\* The loop of parsePowerTable over the TransmitPowerLevelTableEntry* values.
RECURSIVE FillPowerTable(_, _)
FillPowerTable(tbl, es) ==
    IF es = <<>> THEN [exc |-> "none", table |-> tbl]
    ELSE IF ~InList(tbl, Head(es).Index) THEN [exc |-> "Error", table |-> tbl]
    ELSE FillPowerTable([tbl EXCEPT ![Head(es).Index + 1] =
                                        Dbm(Head(es).TransmitPowerValue)],
                        Tail(es))

\* parsePowerTable: [0] * (entries + 1), then every entry at its Index.
parsePowerTable(es) ==
    FillPowerTable([i \in 1..(Len(es) + 1) |-> Zero], es)

\* get_tx_power: the index and the dBm value for a requested tx_power.
get_tx_power(tbl, req) ==
    IF tbl = <<>> THEN [exc |-> "Error", idx |-> req, dbm |-> Zero]
    ELSE IF req = 0
    THEN [exc |-> "none", idx |-> PyIndex(tbl, PyMax(tbl)), dbm |-> PyMax(tbl)]
    ELSE IF InList(tbl, req)
    THEN [exc |-> "none", idx |-> req, dbm |-> PyGet(tbl, req)]
    ELSE [exc |-> "LLRPError", idx |-> req, dbm |-> Zero]

\* The settings of a protocol, and the exception the last operation on them
\* raised.
Settings(a, t, tbl, rm, e) ==
    [antennas |-> a, tx_power |-> t, tx_power_table |-> tbl,
     reader_mode |-> rm, exc |-> e]

CurSettings == Settings(antennas, tx_power, tx_power_table, reader_mode, "none")

\* setTxPower, up to the pause it asks for while INVENTORYING.
setTxPower(c, req) ==
    LET r == get_tx_power(c.tx_power_table, req)
    IN IF r.exc # "none" THEN [c EXCEPT !.exc = r.exc]
       ELSE [c EXCEPT !.tx_power = r.idx]

\* The antennas a reader with `most` antennas supports, among those of a.
RECURSIVE Supported(_, _)
Supported(a, most) ==
    IF a = <<>> THEN <<>>
    ELSE IF Head(a) <= most THEN <<Head(a)>> \o Supported(Tail(a), most)
    ELSE Supported(Tail(a), most)

\* The loop of parseCapabilities over UHFRFModeTable: rm is reader_mode.
RECURSIVE ScanModes(_, _)
ScanModes(rm, modes) ==
    IF modes = <<>> THEN rm
    ELSE LET v == Head(modes)
             match == v.Mod = modulation /\ (tari # 0 => v.MaxTari = tari)
         IN ScanModes(IF match THEN <<v>> ELSE rm, Tail(modes))

\* reader_mode after the loop: the table's entry 0 if nothing is set.
SelectMode(rm, modes) ==
    IF ScanModes(rm, modes) = <<>> THEN <<modes[1]>> ELSE ScanModes(rm, modes)

\* parseCapabilities: the antennas, the power table and tx_power, the mode.
parseCapabilities(c, cap) ==
    LET most == cap.MaxNumberOfAntennaSupported
        c1 == IF \E i \in DOMAIN c.antennas : c.antennas[i] > most
              THEN [c EXCEPT !.antennas = Supported(@, most)]
              ELSE c
        t == parsePowerTable(cap.power)
        c2 == [c1 EXCEPT !.tx_power_table = t.table]
        c3 == setTxPower(c2, c2.tx_power)
    IN IF c.antennas = <<>> THEN [c EXCEPT !.exc = "Error"]
       ELSE IF t.exc # "none" THEN [c1 EXCEPT !.exc = t.exc]
       ELSE IF c3.exc # "none" THEN c3
       ELSE [c3 EXCEPT !.reader_mode = SelectMode(@, cap.modes)]

\* The settings after an operation that left them as c.
SetSettings(c) ==
    /\ antennas' = c.antennas
    /\ tx_power' = c.tx_power
    /\ tx_power_table' = c.tx_power_table
    /\ reader_mode' = c.reader_mode

CommitSettings(c) ==
    /\ SetSettings(c)
    /\ raised' = c.exc

\* The capabilities response is parsed.
ParseCapabilities ==
    /\ tx_power_table = <<>>
    /\ raised = "none"
    /\ CommitSettings(parseCapabilities(CurSettings, capdict))
    /\ UNCHANGED <<state, disconnecting, deferreds, closed, conn, durTimers,
                   resumeTimers, soonAccess, rospec, added, soonStops, outbox, out, delivered, greeted,
                   shutdown, calls, teardown, sent, Config, Framing, Engine,
                   capdict, modulation, tari>>

\* LLRPEngine.setTxPower: the user asks for another power index.
CallSetTxPower(req) ==
    /\ tx_power_table # <<>>
    /\ calls < MaxCalls
    /\ calls' = calls + 1
    /\ CommitSettings(setTxPower(CurSettings, req))
    /\ UNCHANGED <<state, disconnecting, deferreds, closed, conn, durTimers,
                   resumeTimers, soonAccess, rospec, added, soonStops, outbox, out, delivered, greeted,
                   shutdown, teardown, sent, Config, Framing, Engine,
                   capdict, modulation, tari>>

\* The power entries and the mode entries a reader may report.
PowerEntries ==
    [Index : 0..MaxEntries, TransmitPowerValue : {1000, 3225}]

ModeEntries == [ModeIdentifier : {0}, Mod : 0..1, MaxTari : {10, 20}]

\* Mode tables: the ModeIdentifier of an entry is its position.
Numbered(f) == [i \in DOMAIN f |-> [f[i] EXCEPT !.ModeIdentifier = i - 1]]

ModeTables ==
    {Numbered(f) : f \in UNION {[1..n -> ModeEntries] : n \in 1..MaxEntries}}

Capabilities ==
    [MaxNumberOfAntennaSupported : 1..2,
     power : UNION {[1..n -> PowerEntries] : n \in 0..MaxEntries},
     modes : ModeTables]

\* The power indexes a user may ask for.
PowerRequests == -2..(MaxEntries + 1)

CapsInit ==
    /\ Fresh
    /\ reset_on_connect = TRUE
    /\ start_inventory = TRUE
    /\ duration = FALSE
    /\ disconnect_when_done = TRUE
    /\ logging = FALSE
    /\ NoStream
    /\ NoEngine
    /\ capdict \in Capabilities
    /\ antennas \in {<<1>>, <<2>>, <<1, 2>>}
    /\ tx_power \in PowerRequests
    /\ tx_power_table = <<>>
    /\ modulation \in 0..1
    /\ tari \in {0, 10}
    /\ reader_mode = <<>>

CapsNext ==
    \/ ParseCapabilities
    \/ \E req \in PowerRequests : CallSetTxPower(req)

CapsSpec == CapsInit /\ [][CapsNext]_vars

\* ------------------------------------------- the handshake with capabilities
\* The reader answers GET_READER_CAPABILITIES with its capabilities: in
\* SENT_GET_CAPABILITIES handleMessage parses them (c is what parsing leaves
\* of the settings) and re-raises the LLRPError of parseCapabilities.
HandleCapabilities(c) ==
    /\ Commit(handleMessage([Cur EXCEPT !.tx_power = c.tx_power],
                            Msg("GET_READER_CAPABILITIES_RESPONSE", TRUE,
                                c.exc = "LLRPError")),
              "GET_READER_CAPABILITIES_RESPONSE", Tail(outbox))
    /\ SetSettings(c)

ReaderAnswersCapabilities ==
    /\ conn = "made" /\ ~closed
    /\ greeted
    /\ outbox # <<>>
    /\ Head(outbox).name = "GET_READER_CAPABILITIES"
    /\ state = STATE_SENT_GET_CAPABILITIES
    /\ \E c \in {parseCapabilities(CurSettings, capdict)} :
          HandleCapabilities(c)
    /\ UNCHANGED <<conn, soonStops, shutdown, calls, greeted, Config, Framing,
                   Engine, capdict, modulation, tari>>

\* The reader answers any other request with Success.
ReaderAnswersRequest ==
    /\ outbox # <<>>
    /\ Head(outbox).name # "GET_READER_CAPABILITIES"
    /\ ReaderAnswers(TRUE, FALSE)

\* LLRPProtocol.setTxPower(req), c being what get_tx_power makes of the
\* settings: an LLRPError leaves the call; an unchanged index returns at
\* once; a changed one is stored and, while INVENTORYING, followed by
\* pause(0.5, force_regen_rospec=True).
Retune(c) ==
    /\ Commit(IF c.exc # "none" THEN [Cur EXCEPT !.exc = c.exc]
              ELSE IF c.tx_power # tx_power /\ state = STATE_INVENTORYING
              THEN pauseROSpec([Cur EXCEPT !.tx_power = c.tx_power],
                               TRUE, FALSE, TRUE)
              ELSE Cur,
              "", outbox)
    /\ SetSettings(c)

CallRetune(req) ==
    /\ conn = "made"
    /\ tx_power_table # <<>>
    /\ calls < MaxCalls
    /\ calls' = calls + 1
    /\ \E c \in {setTxPower(CurSettings, req)} : Retune(c)
    /\ UNCHANGED <<conn, soonStops, shutdown, greeted, Config, Framing,
                   Engine, capdict, modulation, tari>>

\* Capabilities whose power entries carry the indexes 1..n.
PowerTables ==
    {[i \in 1..n |-> [Index |-> i, TransmitPowerValue |-> 1000 * i]] :
        n \in 1..MaxEntries}

RetuneInit ==
    /\ Fresh
    /\ reset_on_connect \in BOOLEAN
    /\ start_inventory = TRUE
    /\ duration = FALSE
    /\ disconnect_when_done = TRUE
    /\ logging = TRUE
    /\ NoStream
    /\ NoEngine
    /\ capdict \in [MaxNumberOfAntennaSupported : {1},
                     power : PowerTables,
                     modes : {<<[ModeIdentifier |-> 0, Mod |-> 0,
                                 MaxTari |-> 10]>>}]
    /\ antennas = <<1>>
    /\ tx_power \in PowerRequests
    /\ tx_power_table = <<>>
    /\ modulation = 0
    /\ tari = 0
    /\ reader_mode = <<>>

RetuneNext ==
    \/ ConnectionMade
    \/ ReaderGreets(TRUE)
    \/ ReaderAnswersCapabilities
    \/ ReaderAnswersRequest
    \/ ResumeTimerFires
    \/ \E req \in PowerRequests : CallRetune(req)

\* The reader answers what it is asked, and a timer that is due fires.
RetuneSpec ==
    /\ RetuneInit
    /\ [][RetuneNext]_vars
    /\ WF_vars(ConnectionMade)
    /\ WF_vars(ReaderGreets(TRUE))
    /\ WF_vars(ReaderAnswersCapabilities)
    /\ WF_vars(ReaderAnswersRequest)
    /\ WF_vars(ResumeTimerFires)


\* ------------------------------------------------------- access specs
\* Whether nextAccess is given a read or write operation (1) or none (0).
WordsGiven == {0, 1}

\* The user calls nextAccess (through LLRPEngine.nextAccess).
CallNextAccess(words) == Call(nextAccess(Cur, words))

\* The event loop runs the startAccess that send_DELETE_ACCESSSPEC scheduled.
SoonAccessFires ==
    /\ soonAccess # <<>>
    /\ Commit(startAccess([Cur EXCEPT !.soonAccess = Tail(@)],
                          Head(soonAccess)), "", outbox)
    /\ UNCHANGED <<conn, soonStops, Config, Framing, Caps, Engine, greeted,
                   shutdown, calls>>

\* A connection that starts its inventory by itself, a user that only calls
\* nextAccess, and a reader that answers with Success or with a failure.
AccessInit ==
    /\ Fresh
    /\ reset_on_connect = FALSE
    /\ start_inventory = TRUE
    /\ duration = FALSE
    /\ disconnect_when_done = TRUE
    /\ logging = FALSE
    /\ NoStream
    /\ NoEngine
    /\ NoCaps

AccessNext ==
    \/ ConnectionMade
    \/ ReaderGreets(TRUE)
    \/ \E ok \in BOOLEAN : ReaderAnswers(ok, FALSE)
    \/ \E words \in WordsGiven : CallNextAccess(words)
    \/ SoonAccessFires

AccessSpec == AccessInit /\ [][AccessNext]_vars

\* ------------------------------------------------------------ properties
\* Every message the reader can send.
InMsgs ==
    {Msg(n, k, FALSE) : n \in Responses \cup {REN}, k \in BOOLEAN}
    \cup {Msg("GET_READER_CAPABILITIES_RESPONSE", TRUE, TRUE)}
    \cup Unsolicited

\* The step is the receipt of message m.
Receipt(m) ==
    \/ m.name = REN /\ ~m.bad /\ ReaderGreets(m.ok)
    \/ /\ outbox # <<>>
       /\ m.name = Resp(Head(outbox).name)
       /\ ReaderAnswers(m.ok, m.bad)
    \/ m \in Unsolicited /\ ReaderSends(m)

\* The message names handleMessage expects in a state (the names its branch
\* for the state does not log as unexpected).
Expected(s) ==
    CASE s \in {STATE_DISCONNECTED, STATE_CONNECTING, STATE_CONNECTED} -> {REN}
      [] s = STATE_SENT_GET_CAPABILITIES -> {"GET_READER_CAPABILITIES_RESPONSE"}
      [] s = STATE_SENT_ADD_ROSPEC -> {"ADD_ROSPEC_RESPONSE"}
      [] s = STATE_PAUSING -> {"DISABLE_ROSPEC_RESPONSE"}
      [] s = STATE_SENT_ENABLE_ROSPEC -> {"ENABLE_ROSPEC_RESPONSE"}
      [] s = STATE_INVENTORYING ->
           {RO_ACCESS_REPORT, REN, "ADD_ACCESSSPEC_RESPONSE",
            "ENABLE_ACCESSSPEC_RESPONSE", "DISABLE_ACCESSSPEC_RESPONSE",
            "DELETE_ACCESSSPEC_RESPONSE"}
      [] s = STATE_SENT_DELETE_ACCESSSPEC -> {"DELETE_ACCESSSPEC_RESPONSE"}
      [] s = STATE_SENT_DELETE_ROSPEC -> {"DELETE_ROSPEC_RESPONSE"}
      [] OTHER -> {}

KeepaliveMsg == Msg(KEEPALIVE, FALSE, FALSE)
ReportMsg == Msg(RO_ACCESS_REPORT, FALSE, FALSE)
KeepaliveAck == Out("KEEPALIVE_ACK", 0)

\* What one operation can make of the protocol in the current state: the
\* handling of any message, a call of any method, a timer firing.
CallOutcomes ==
    {stopPolitely(Cur, d) : d \in BOOLEAN}
    \cup {pause(Cur, t, f) : t, f \in BOOLEAN}
    \cup {resume(Cur), startInventory(Cur)}

\* C1: an operation makes the state INVENTORYING only if it is the handling
\* of a received ENABLE_ROSPEC_RESPONSE whose status is Success; no call and
\* no timer does, in whatever state the calls and timers before left the
\* connection.
C1_InventoryingOnlyOnEnableSuccess ==
    state # STATE_INVENTORYING =>
        /\ \A m \in InMsgs :
              handleMessage(Cur, m).state = STATE_INVENTORYING
              => (m.name = "ENABLE_ROSPEC_RESPONSE" /\ m.ok)
        /\ \A p \in CallOutcomes : p.state # STATE_INVENTORYING

\* C1 witness: INVENTORYING was reached although stopPolitely had been called
\* during the handshake (its DELETE_ACCESSSPEC is still unanswered).
C1_Witness ==
    /\ state = STATE_INVENTORYING
    /\ outbox # <<>>
    /\ Head(outbox) = Out("DELETE_ACCESSSPEC", 0)

\* C2 (as claimed): a received message whose name is not expected in the
\* current state, other than KEEPALIVE, changes neither the state nor the
\* continuation queues, writes nothing and does not close the socket.
C2_UnexpectedIsDropped ==
    [][\A m \in InMsgs :
        (Receipt(m) /\ m.name \notin Expected(state) /\ m.name # KEEPALIVE)
        => /\ state' = state
           /\ out' = <<>>
           /\ deferreds' = deferreds
           /\ closed' = closed]_vars

\* C3 (as claimed): a failed DISABLE_ROSPEC_RESPONSE in PAUSING leads to
\* PAUSED, a failed DELETE_ACCESSSPEC_RESPONSE in SENT_DELETE_ACCESSSPEC writes
\* DELETE_ROSPEC(0) and leads to SENT_DELETE_ROSPEC, a failed
\* DELETE_ROSPEC_RESPONSE in SENT_DELETE_ROSPEC leads to DISCONNECTED with the
\* socket closed if disconnecting and to CONNECTED otherwise.
C3_TeardownFailureAdvances ==
    [][/\ (Receipt(Msg("DISABLE_ROSPEC_RESPONSE", FALSE, FALSE))
           /\ state = STATE_PAUSING)
          => state' = STATE_PAUSED
       /\ (Receipt(Msg("DELETE_ACCESSSPEC_RESPONSE", FALSE, FALSE))
           /\ state = STATE_SENT_DELETE_ACCESSSPEC)
          => (Out("DELETE_ROSPEC", 0) \in {out'[i] : i \in DOMAIN out'}
              /\ state' # STATE_SENT_DELETE_ACCESSSPEC)
       /\ (Receipt(Msg("DELETE_ROSPEC_RESPONSE", FALSE, FALSE))
           /\ state = STATE_SENT_DELETE_ROSPEC)
          => IF disconnecting
             THEN state' = STATE_DISCONNECTED /\ closed'
             ELSE state' = STATE_CONNECTED]_vars

\* C4 (as claimed): a failed GET_READER_CAPABILITIES_RESPONSE,
\* ADD_ROSPEC_RESPONSE or ENABLE_ROSPEC_RESPONSE received in the state that
\* expects it writes nothing, leaves the state and closes the socket.
C4_HandshakeFailureCloses ==
    [][\A n \in {"GET_READER_CAPABILITIES_RESPONSE", "ADD_ROSPEC_RESPONSE",
                 "ENABLE_ROSPEC_RESPONSE"} :
        (Receipt(Msg(n, FALSE, FALSE)) /\ Expected(state) = {n})
        => (out' = <<>> /\ state' = state /\ closed')]_vars

\* C5: in each of the 11 states, handling a KEEPALIVE writes exactly one
\* KEEPALIVE_ACK and leaves the state, the continuation queues and the
\* disconnecting flag as they were.
C5_KeepaliveAcked ==
    \A s \in States :
        LET p == handleMessage([Cur EXCEPT !.state = s], KeepaliveMsg)
        IN /\ p.out = <<KeepaliveAck>>
           /\ p.state = s
           /\ p.deferreds = deferreds
           /\ p.disconnecting = disconnecting
           /\ p.closed = closed
           /\ p.exc = "none"

\* C5 witness: a KEEPALIVE was acknowledged during teardown.
C5_Witness ==
    /\ out = <<KeepaliveAck>>
    /\ state = STATE_SENT_DELETE_ROSPEC

\* C6 (as claimed): an RO_ACCESS_REPORT received outside INVENTORYING calls no
\* tag-report callback, writes nothing and leaves the state.
C6_ReportDroppedUnlessInventorying ==
    [][(Receipt(ReportMsg) /\ state # STATE_INVENTORYING)
        => (delivered' = <<>> /\ out' = <<>> /\ state' = state)]_vars

\* C7: while INVENTORYING, the step that handles an RO_ACCESS_REPORT calls
\* every tag-report callback once, in registration order, and stays
\* INVENTORYING; the step that handles a KEEPALIVE writes the KEEPALIVE_ACK,
\* calls no tag-report callback and stays INVENTORYING.
C7_ReportsDelivered ==
    [][/\ (Receipt(ReportMsg) /\ state = STATE_INVENTORYING)
          => /\ delivered' = [c \in 1..NCallbacks |-> c]
             /\ state' = STATE_INVENTORYING
             /\ raised' = "none"
       /\ (Receipt(KeepaliveMsg) /\ state = STATE_INVENTORYING)
          => /\ delivered' = <<>>
             /\ out' = <<KeepaliveAck>>
             /\ state' = STATE_INVENTORYING]_vars

\* C7 witness: a report was delivered to every callback while INVENTORYING.
C7_Witness ==
    /\ state = STATE_INVENTORYING
    /\ delivered = [c \in 1..NCallbacks |-> c]

\* C8 (as claimed): with politeShutdown() the user's only call, the socket is
\* closed only after DELETE_ACCESSSPEC(0) was written, then DELETE_ROSPEC(0)
\* was written, then a DELETE_ROSPEC_RESPONSE was received.
C8_CloseOnlyAfterTeardown ==
    (closed /\ shutdown /\ calls = 1) => teardown = 3

\* Nothing is in flight and no timer is pending: the reader has greeted and
\* answered every request.
Quiescent ==
    /\ conn = "made"
    /\ greeted
    /\ outbox = <<>>
    /\ soonStops = 0
    /\ durTimers = 0
    /\ resumeTimers = 0

\* C9 (as claimed): once politeShutdown() was called (the user's only call),
\* and the reader has answered every request with Success, DELETE_ROSPEC(0)
\* has been written and the socket is closed.
C9_ShutdownCompletes ==
    (shutdown /\ calls = 1 /\ Quiescent) => (teardown >= 2 /\ closed)

Fired(d) == d = <<>>

\* C11 (as claimed): the step that handles a message leaves no continuation
\* registered under the message's name unfired, and fires or removes no
\* continuation registered under another name.
C11_FiredOnNextArrival ==
    [][\A m \in InMsgs :
        (Receipt(m) /\ m.name \in DeferredNames)
        => /\ \A i \in DOMAIN deferreds'[m.name] : Fired(deferreds'[m.name][i])
           /\ \A n \in DeferredNames \ {m.name} :
                /\ Len(deferreds'[n]) >= Len(deferreds[n])
                /\ \A i \in DOMAIN deferreds[n] :
                      deferreds'[n][i] = deferreds[n][i]]_vars

\* C12 (as claimed): when handleMessage has returned for a received response,
\* be it a failure or unexpected in the state, the continuation queue of the
\* response's name is empty.
C12_QueueEmptyAfterResponse ==
    [][\A m \in InMsgs :
        (Receipt(m) /\ m.name \in Responses /\ raised' = "none")
        => deferreds'[m.name] = <<>>]_vars

\* The states the claims call non-transient.
NonTransient ==
    {STATE_CONNECTED, STATE_INVENTORYING, STATE_PAUSED, STATE_DISCONNECTED}

\* C13 (as claimed): on the reset_on_connect + start_inventory path, with no
\* call by the user, once INVENTORYING is reached and every request has been
\* answered, every continuation queue is empty.
C13_QueuesEmptyWhenInventorying ==
    (/\ reset_on_connect /\ start_inventory /\ calls = 0
     /\ conn = "made"
     /\ state = STATE_INVENTORYING
     /\ outbox = <<>>)
    => \A n \in DeferredNames : deferreds[n] = <<>>

\* C14 (as claimed): when two or more continuations are queued under a
\* response's name and one of them raises while the response is handled, every
\* one of them has still been fired.
C14_FiringSurvivesRaise ==
    [][\A m \in InMsgs :
        (/\ Receipt(m)
         /\ m.name \in Responses /\ ~m.bad
         /\ Len(deferreds[m.name]) >= 2
         /\ raised' # "none")
        => \A i \in DOMAIN deferreds'[m.name] : Fired(deferreds'[m.name][i])]_vars

\* C16 (as claimed): a step that leaves INVENTORYING cancels the duration
\* timer: no duration timer is pending after it.
C16_LeavingInventoryingCancelsTimer ==
    [][(state = STATE_INVENTORYING /\ state' # STATE_INVENTORYING)
        => durTimers' = 0]_vars

\* C15 (as claimed): with a duration and disconnect_when_done=False, and no
\* call by the user, the disconnecting flag stays false and the socket stays
\* open.
C15_TimerKeepsConnection ==
    (duration /\ ~disconnect_when_done /\ calls = 0)
    => (~disconnecting /\ ~closed)

\* The requests of the handshake, in the order the happy path writes them.
HappyOrder ==
    IF reset_on_connect
    THEN <<"GET_READER_CAPABILITIES", "DELETE_ACCESSSPEC", "DELETE_ROSPEC",
           "ADD_ROSPEC", "ENABLE_ROSPEC">>
    ELSE <<"GET_READER_CAPABILITIES", "ADD_ROSPEC", "ENABLE_ROSPEC">>

\* C19: with start_inventory, a reader that greets and answers every request
\* with Success eventually brings the connection to INVENTORYING, the requests
\* written until then being GET_READER_CAPABILITIES, (DELETE_ACCESSSPEC,
\* DELETE_ROSPEC when reset_on_connect,) ADD_ROSPEC, ENABLE_ROSPEC in that order.
C19_HappyPath ==
    start_inventory => <>(state = STATE_INVENTORYING /\ sent = HappyOrder)

\* C19 witness: INVENTORYING reached through the reset of the reader.
C19_Witness ==
    /\ reset_on_connect
    /\ state = STATE_INVENTORYING
    /\ sent = HappyOrder

\* C20 (as claimed): once the whole stream has been passed to data_received,
\* in whatever chunks, the frames handed to handleMessage are those handed
\* when the stream is passed in one chunk.
C20_ChunkingInvisible ==
    (pos = Len(stream) /\ pos > 0)
    => handed = data_received(FreshRx, stream).handed


\* C17: with reconnect=False, whatever connections are lost and whatever
\* connect attempts time out, among all the readers of one engine,
\* onFinish(None) is scheduled at most once.
C17_FinishOnce == ~reconnect => finishes <= 1

\* C18: with reconnect=True every connection loss and every connect timeout
\* schedules exactly one reconnect timer and starts no attempt by itself, a
\* timer that fires starts exactly one attempt, the protocol of a new
\* connection starts DISCONNECTED with nothing queued, written or pending and
\* answers its reader's greeting with GET_READER_CAPABILITIES, and onFinish is
\* never scheduled.
C18_ReconnectAlways ==
    [][reconnect =>
        /\ \A k \in 1..MaxAttempts :
              /\ (EngineConnectionLost(k) \/ ConnectTimeout(k)) =>
                    /\ reconnectTimers' = reconnectTimers + 1
                    /\ attempts' = attempts
                    /\ connecting' \subseteq connecting
              /\ Connected(k) => protos'[k] = FreshConn
              /\ (EngineGreets(k) /\ protos[k] = FreshConn) =>
                    /\ protos'[k].p.state = STATE_SENT_GET_CAPABILITIES
                    /\ NamesOf(protos'[k].box) = <<"GET_READER_CAPABILITIES">>
        /\ ReconnectTimerFires =>
              /\ attempts' = attempts + 1
              /\ connecting' = connecting \cup {attempts'}
        /\ finishes' = 0]_vars

\* A connection made after a loss and after a timeout has gone through the
\* whole handshake again.
C18_Witness ==
    /\ reconnect
    /\ attempts = MaxAttempts
    /\ protocols = {MaxAttempts}
    /\ connecting = {}
    /\ reconnectTimers = 0
    /\ protos[1].p.state = STATE_INVENTORYING
    /\ protos[MaxAttempts].p.state = STATE_INVENTORYING


\* C21: a frame of a type unknown to the codec is the only thing dropped:
\* once the whole stream has been delivered, in whatever chunks, every frame
\* the codec can decode has been handed to handleMessage, in order.
C21_OnlyUnknownFrameDropped ==
    (pos = Len(stream) /\ pos > 0) => handed = Decodable(FramesOf(stream))


\* C22: on a parsed power table, a request of 0 selects an index that holds
\* the table's maximum, a request within 1..len(table)-1 is returned
\* unchanged, and every other request, negative ones included, fails with
\* LLRPError.
C22_PowerSelection ==
    tx_power_table # <<>> =>
        \A req \in PowerRequests :
            LET r == get_tx_power(tx_power_table, req)
            IN IF req = 0
               THEN /\ r.exc = "none"
                    /\ \A y \in Range(tx_power_table) :
                          ~Less(PyGet(tx_power_table, r.idx), y)
               ELSE IF req \in 1..(Len(tx_power_table) - 1)
               THEN r.exc = "none" /\ r.idx = req
               ELSE r.exc = "LLRPError"


\* C23: once parsePowerTable has been applied to the reader's entries, the
\* table has one element more than there are entries, its element 0 is the
\* sentinel 0, and its element at each entry's Index is that entry's
\* TransmitPowerValue divided by 100.
C23_PowerTableShape ==
    (tx_power_table # <<>> \/ raised # "none") =>
        /\ Len(tx_power_table) = Len(capdict.power) + 1
        /\ tx_power_table[1] = Zero
        /\ \A i \in DOMAIN capdict.power :
              PyGet(tx_power_table, capdict.power[i].Index)
                  = Dbm(capdict.power[i].TransmitPowerValue)


\* C25: once parseCapabilities has returned, reader_mode is the first entry
\* of UHFRFModeTable, in table order, whose Mod is the requested modulation
\* and, if a Tari was requested, whose MaxTari is that Tari; the table's first
\* entry if no entry matches.
C25_FirstMatchingMode ==
    reader_mode # <<>> =>
        LET modes == capdict.modes
            hits == {i \in DOMAIN modes :
                        /\ modes[i].Mod = modulation
                        /\ tari # 0 => modes[i].MaxTari = tari}
        IN reader_mode[1] =
               IF hits = {} THEN modes[1]
               ELSE modes[CHOOSE i \in hits : \A k \in hits : i <= k]


\* C26: after parseCapabilities every antenna kept is one the reader
\* supports, and parseCapabilities never returns normally with no antenna
\* left.
C26_AntennasValidated ==
    (tx_power_table # <<>> \/ raised # "none") =>
        /\ \A i \in DOMAIN antennas :
              antennas[i] <= capdict.MaxNumberOfAntennaSupported
        /\ reader_mode # <<>> => antennas # <<>>


\* C24: while the user has made no call, a configured tx_power that is out of
\* range for the table the reader reported (not in 0..len(table)-1) has made
\* handleMessage raise LLRPError, has left the connection in
\* SENT_GET_CAPABILITIES, and no ADD_ROSPEC has been sent.
C24_InvalidPowerStopsHandshake ==
    (calls = 0 /\ tx_power_table # <<>>
        /\ tx_power \notin 0..(Len(tx_power_table) - 1)) =>
        /\ raised = "LLRPError"
        /\ state = STATE_SENT_GET_CAPABILITIES
        /\ \A i \in DOMAIN sent : sent[i] # "ADD_ROSPEC"

\* C27: a connection that setTxPower has put in PAUSING eventually returns
\* to INVENTORYING, the reader answering every request with success.
C27_RetuneReturnsToInventorying ==
    (state = STATE_PAUSING) ~> (state = STATE_INVENTORYING)


\* C28: when a connection is lost it leaves the engine's set, and no
\* continuation is left pending on it: every queue of its protocol has been
\* fired and emptied.
C28_LossFailsPending ==
    [][\A k \in 1..MaxAttempts :
          EngineConnectionLost(k) =>
              /\ k \notin protocols'
              /\ \A n \in DeferredNames : protos'[k].p.deferreds[n] = <<>>]_vars


\* C29: with reset_on_connect and start_inventory, a step writes ADD_ROSPEC
\* only after DELETE_ROSPEC_RESPONSE has been received for the reset, and only
\* from state CONNECTED.
C29_AddROSpecAfterReset ==
    [][(reset_on_connect /\ start_inventory
          /\ \E i \in DOMAIN out' : out'[i].name = "ADD_ROSPEC") =>
            (teardown = 3 /\ state = STATE_CONNECTED)]_vars


\* C30: the handling of a message writes GET_READER_CAPABILITIES only if the
\* message is a successful READER_EVENT_NOTIFICATION received in DISCONNECTED,
\* CONNECTING or CONNECTED, and the state is SENT_GET_CAPABILITIES afterwards;
\* a failed READER_EVENT_NOTIFICATION in those states writes nothing and
\* leaves the state as it is; no call and no timer writes the request.
C30_CapabilitiesRequestedOnGreeting ==
    /\ \A m \in InMsgs :
          LET p == handleMessage(Cur, m)
              connecting_ == state \in {STATE_DISCONNECTED, STATE_CONNECTING,
                                        STATE_CONNECTED}
          IN /\ (\E i \in DOMAIN p.out :
                      p.out[i].name = "GET_READER_CAPABILITIES") =>
                    /\ m.name = REN /\ m.ok
                    /\ connecting_
                    /\ p.state = STATE_SENT_GET_CAPABILITIES
             /\ (m.name = REN /\ m.ok /\ connecting_) =>
                    /\ p.out = <<Out("GET_READER_CAPABILITIES", 0)>>
                    /\ p.state = STATE_SENT_GET_CAPABILITIES
             /\ (m.name = REN /\ ~m.ok /\ connecting_) =>
                    /\ p.out = <<>>
                    /\ p.state = state
    /\ \A p \in CallOutcomes :
          \A i \in DOMAIN p.out : p.out[i].name # "GET_READER_CAPABILITIES"

\* C30 witness: the greeting was handled in CONNECTED, after a reset, and the
\* request is the one message the step wrote.
C30_Witness ==
    /\ state = STATE_SENT_GET_CAPABILITIES
    /\ out = <<Out("GET_READER_CAPABILITIES", 0)>>
    /\ teardown = 3


\* C31: pause() without force outside INVENTORYING, resume() outside PAUSED,
\* CONNECTED and DISCONNECTED, and startInventory() while INVENTORYING change
\* nothing: no message, no continuation, no timer, the same state.  pause()
\* in INVENTORYING writes DISABLE_ROSPEC and sets PAUSING; resume() in PAUSED
\* writes ENABLE_ROSPEC and sets SENT_ENABLE_ROSPEC.
C31_IgnoredCallsChangeNothing ==
    /\ state # STATE_INVENTORYING =>
          \A timed \in BOOLEAN : pause(Cur, timed, FALSE) = Cur
    /\ state \notin {STATE_PAUSED, STATE_CONNECTED, STATE_DISCONNECTED} =>
          resume(Cur) = Cur
    /\ state = STATE_INVENTORYING =>
          /\ startInventory(Cur) = Cur
          /\ \A timed, force \in BOOLEAN :
                /\ pause(Cur, timed, force).out = <<Out("DISABLE_ROSPEC", 1)>>
                /\ pause(Cur, timed, force).state = STATE_PAUSING
    /\ state = STATE_PAUSED =>
          /\ resume(Cur).out = <<Out("ENABLE_ROSPEC", 1)>>
          /\ resume(Cur).state = STATE_SENT_ENABLE_ROSPEC

\* C31 witness: pause() has sent DISABLE_ROSPEC and the reader has answered
\* it, so the protocol is PAUSED, where resume() writes ENABLE_ROSPEC
\* and pause() without force and startInventory are the calls in question.
C31_Witness ==
    /\ state = STATE_PAUSED
    /\ calls > 0
    /\ outbox = <<>>
    /\ resume(Cur).out = <<Out("ENABLE_ROSPEC", 1)>>
    /\ pause(Cur, FALSE, FALSE) = Cur


\* The DISABLE_ACCESSSPEC_RESPONSE of the access spec, with either status.
DisableAnswer(ok) == Msg("DISABLE_ACCESSSPEC_RESPONSE", ok, FALSE)

\* n times DELETE_ACCESSSPEC for the access spec.
Deletes(n) == [i \in 1..n |-> Out("DELETE_ACCESSSPEC", 1)]

\* What C32 says of the steps that do not depend on the operation given:
\* while INVENTORYING, nextAccess writes DISABLE_ACCESSSPEC; the
\* DISABLE_ACCESSSPEC_RESPONSE, success or failure, makes every pending
\* nextAccess write one DELETE_ACCESSSPEC and schedule one startAccess;
\* ENABLE_ACCESSSPEC is written only on ADD_ACCESSSPEC_RESPONSE with Success;
\* none of these steps changes the state.
AccessSteps ==
    state = STATE_INVENTORYING =>
        /\ \A words \in WordsGiven :
              /\ nextAccess(Cur, words).out = <<Out("DISABLE_ACCESSSPEC", 1)>>
              /\ nextAccess(Cur, words).state = STATE_INVENTORYING
        /\ \A ok \in BOOLEAN :
              LET r == handleMessage(Cur, DisableAnswer(ok))
                  n == Len(deferreds["DISABLE_ACCESSSPEC_RESPONSE"])
              IN /\ r.out = Deletes(n)
                 /\ Len(r.soonAccess) = Len(soonAccess) + n
                 /\ r.state = STATE_INVENTORYING
        /\ \A m \in InMsgs :
              LET r == handleMessage(Cur, m)
              IN /\ (\E i \in DOMAIN r.out : r.out[i].name = "ENABLE_ACCESSSPEC")
                      => m = Msg("ADD_ACCESSSPEC_RESPONSE", TRUE, FALSE)
                 /\ r.state = STATE_INVENTORYING

\* C32 (as claimed): while INVENTORYING, nextAccess sends DISABLE_ACCESSSPEC;
\* on the DISABLE_ACCESSSPEC_RESPONSE, success or failure, one
\* DELETE_ACCESSSPEC is sent and the startAccess it schedules sends one
\* ADD_ACCESSSPEC; ENABLE_ACCESSSPEC is sent only after an
\* ADD_ACCESSSPEC_RESPONSE with Success; the state stays INVENTORYING.
C32_DeleteThenAdd ==
    /\ AccessSteps
    /\ (state = STATE_INVENTORYING /\ soonAccess # <<>>) =>
          LET r == startAccess(Cur, Head(soonAccess))
          IN /\ r.out = <<Out("ADD_ACCESSSPEC", 1)>>
             /\ r.state = STATE_INVENTORYING

\* C32 (amended): as C32, for a nextAccess that is given a read or a write
\* operation: the startAccess scheduled for it sends one ADD_ACCESSSPEC.
C32_DeleteThenAddGivenWords ==
    /\ AccessSteps
    /\ (state = STATE_INVENTORYING /\ soonAccess # <<>>
            /\ Head(soonAccess) = 1) =>
          LET r == startAccess(Cur, Head(soonAccess))
          IN /\ r.out = <<Out("ADD_ACCESSSPEC", 1)>>
             /\ r.exc = "none"
             /\ r.state = STATE_INVENTORYING

\* C32 witness: the whole exchange has happened: ENABLE_ACCESSSPEC has just
\* been written, in INVENTORYING, after a nextAccess.
C32_Witness ==
    /\ state = STATE_INVENTORYING
    /\ calls > 0
    /\ out = <<Out("ENABLE_ACCESSSPEC", 1)>>


\* C33 (as claimed): every connection attempt goes to the host it was asked
\* for: the host of the new_reader call that returned its coroutine, also
\* when several new_reader calls precede the first coroutine that runs, and
\* for a reconnect the host whose connection was lost.
C33_AttemptGoesToItsHost ==
    \A k \in 1..attempts : targets[k].to = targets[k].asked


\* C34 (as claimed): the disconnecting flag starts false, no step resets it,
\* only stopPolitely(disconnect=True) sets it (no other call and no received
\* message does), and while it is set every DELETE_ROSPEC_RESPONSE handled in
\* SENT_DELETE_ROSPEC closes the socket, whichever stopPolitely it answers.
C34_DisconnectingMonotonic ==
    /\ (conn = "new") => ~disconnecting
    /\ \A m \in InMsgs : handleMessage(Cur, m).disconnecting = disconnecting
    /\ \A r \in CallOutcomes : disconnecting => r.disconnecting
    /\ \A r \in CallOutcomes \ {stopPolitely(Cur, TRUE)} :
          r.disconnecting = disconnecting
    /\ (disconnecting /\ state = STATE_SENT_DELETE_ROSPEC) =>
          \A ok \in BOOLEAN :
             handleMessage(Cur, Msg("DELETE_ROSPEC_RESPONSE", ok, FALSE)).closed


\* C35 (as claimed): whenever the connection is INVENTORYING, the ROSpec of
\* the last ADD_ROSPEC written was built with the current tx_power index.
C35_ROSpecHasCurrentPower ==
    state = STATE_INVENTORYING => added = <<tx_power>>


\* C36: the state is always one of the 11 declared states and never
\* CONNECTING; connection_made finds and leaves the state DISCONNECTED, and
\* connection_lost leaves the state as it was.
C36_StateDeclaredNeverConnecting ==
    /\ [](state \in States /\ state # STATE_CONNECTING)
    /\ [][(ConnectionMade =>
                (state = STATE_DISCONNECTED /\ state' = STATE_DISCONNECTED))
            /\ (ConnectionLost => state' = state)]_vars

\* C36 witness: the connection was lost while INVENTORYING, and the state
\* is still INVENTORYING.
C36_Witness ==
    /\ conn = "lost"
    /\ state = STATE_INVENTORYING

====
